---- MODULE Spec2Model ----
(***************************************************************************)
(* Model of the wait_for_db management command                             *)
(* (app/core/management/commands/wait_for_db.py, Command.handle).          *)
(*                                                                         *)
(* The command's only collaborators are self.check (the connection check), *)
(* time.sleep and self.stdout.write.  The connection check is supplied by  *)
(* the environment: as in core/tests/test_commands.py, it is a fixed       *)
(* sequence of outcomes (mock side_effect), one per call.  Every call the  *)
(* command makes to a collaborator is recorded, in order, in trace.        *)
(***************************************************************************)
EXTENDS Integers, Sequences, FiniteSets, TLC

\* ---- bounds ----
MaxChecks == 6      \* length of the environment's outcome plan (total calls of check)
MaxRuns == 2        \* invocations of the command in sequence

\* ---- outcomes of one call of self.check ----
Ok == "ok"
Psycopg2OpError == "Psycopg2OpError"
OperationalError == "OperationalError"
OtherError == "OtherError"
Outcomes == {Ok, Psycopg2OpError, OperationalError, OtherError}

\* ---- the text the command writes ----
MsgWaiting == "Waiting for database..."
MsgUnavailable == "Database unavailable, waiting 1 second..."
MsgAvailable == "Database available!"

VARIABLES
    plan,       \* environment: plan[k] is the outcome of the k-th call of check
    calls,      \* calls of check made so far, over all invocations
    pc,         \* position of the current invocation of handle
    db_up,      \* handle's local db_up
    raised,     \* the exception propagating out of handle ("" when none)
    trace,      \* collaborator calls of the current invocation, in order
    base,       \* value of calls when the current invocation began
    history     \* finished invocations: [base, trace, pc, raised]

vars == <<plan, calls, pc, db_up, raised, trace, base, history>>

\* ---- the database tables (core/models.py) and the requests working on them ----
VARIABLES
    users,        \* table of User rows, users[pk]
    ucall,        \* the last call of UserManager.create_user / create_superuser and its outcome
    tags,         \* table of Tag rows, tags[pk] = [user, name]
    ingredients,  \* table of Ingredient rows, ingredients[pk] = [user, name]
    recipes,      \* table of Recipe rows, recipes[pk] = [user, title]
    rtags,        \* the Recipe.tags relation: pairs <<recipe pk, tag pk>>
    ringrs,       \* the Recipe.ingredients relation: pairs <<recipe pk, ingredient pk>>
    rcall,        \* the last finished call of RecipeSerializer.create / update
    reqs          \* requests in progress, by worker

userVars == <<users, ucall>>
recipeVars == <<tags, ingredients, recipes, rtags, ringrs, rcall, reqs>>
storeVars == <<userVars, recipeVars>>
allVars == <<vars, userVars, recipeVars>>

\* ---- events recorded in trace ----
CheckEvent(dbs, res) == [op |-> "check", text |-> "", dbs |-> dbs, res |-> res, secs |-> 0]
WriteEvent(line) == [op |-> "write", text |-> line, dbs |-> <<>>, res |-> "", secs |-> 0]
SleepEvent(s) == [op |-> "sleep", text |-> "", dbs |-> <<>>, res |-> "", secs |-> s]

\* ---- the code's constants ----
\* except (Psycopg2OpError, OperationalError):
RetryableAll(outcome) == outcome # Ok
RetryableDjangoOnly(outcome) == outcome = OperationalError
Retryable(outcome) == outcome \in {Psycopg2OpError, OperationalError}

\* self.check(databases=["default"])
CheckArgsOther == IF calls = 0 THEN <<"default">> ELSE <<"default", "replica">>
CheckArgs == <<"default">>

\* time.sleep(1)
SleepSecondsBackoff == Len(SelectSeq(trace, LAMBDA e : e.op = "sleep")) + 1
SleepSeconds == 1

\* ---- the empty database, with no request in progress ----
NoRow == [email |-> <<>>, password |-> [usable |-> FALSE, digest |-> ""], name |-> "",
          is_active |-> FALSE, is_staff |-> FALSE, is_superuser |-> FALSE]
NoUserCall == [seq |-> 0, op |-> "none", email |-> <<>>, password |-> "", name |-> "",
               result |-> "", pk |-> 0, returned |-> NoRow]
NoRecipeCall == [seq |-> 0, op |-> "none", user |-> 0, recipe |-> 0,
                 data |-> [hasTitle |-> FALSE, title |-> "", hasTags |-> FALSE, tagNames |-> <<>>,
                           hasIngrs |-> FALSE, ingrNames |-> <<>>],
                 result |-> ""]

UsersEmpty == users = <<>> /\ ucall = NoUserCall

RecipesEmpty ==
    /\ tags = <<>>
    /\ ingredients = <<>>
    /\ recipes = <<>>
    /\ rtags = {}
    /\ ringrs = {}
    /\ rcall = NoRecipeCall
    /\ reqs = <<>>

StoreEmpty == UsersEmpty /\ RecipesEmpty

\* ---- Init: no invocation has started; the environment has fixed its plan ----
Init ==
    /\ plan \in [1..MaxChecks -> Outcomes]
    /\ calls = 0
    /\ pc = "idle"
    /\ db_up = FALSE
    /\ raised = ""
    /\ trace = <<>>
    /\ base = 0
    /\ history = <<>>
    /\ StoreEmpty

\* ---- handle, lines 29-30: the first write and db_up = False ----
BeginNoReset ==
    /\ pc = "idle"
    /\ trace' = Append(trace, WriteEvent(MsgWaiting))
    /\ base' = calls
    /\ pc' = "loop"
    /\ UNCHANGED <<plan, calls, db_up, raised, history>>
    /\ UNCHANGED storeVars

Begin ==
    /\ pc = "idle"
    /\ trace' = Append(trace, WriteEvent(MsgWaiting))
    /\ db_up' = FALSE
    /\ base' = calls
    /\ pc' = "loop"
    /\ UNCHANGED <<plan, calls, raised, history>>
    /\ UNCHANGED storeVars

\* ---- lines 32-37: loop test true, the check, and the dispatch of its outcome ----
CheckNoFlag ==
    /\ pc = "loop"
    /\ ~db_up
    /\ calls < MaxChecks
    /\ LET outcome == plan[calls + 1] IN
        /\ calls' = calls + 1
        /\ trace' = Append(trace, CheckEvent(CheckArgs, outcome))
        /\ IF outcome = Ok
             THEN /\ pc' = "loop"
                  /\ UNCHANGED <<db_up, raised>>
             ELSE IF Retryable(outcome)
               THEN /\ pc' = "except"
                    /\ UNCHANGED <<db_up, raised>>
               ELSE /\ pc' = "crashed"
                    /\ raised' = outcome
                    /\ db_up' = db_up
    /\ UNCHANGED <<plan, base, history>>
    /\ UNCHANGED storeVars

Check ==
    /\ pc = "loop"
    /\ ~db_up
    /\ calls < MaxChecks
    /\ LET outcome == plan[calls + 1] IN
        /\ calls' = calls + 1
        /\ trace' = Append(trace, CheckEvent(CheckArgs, outcome))
        /\ IF outcome = Ok
             THEN /\ db_up' = TRUE
                  /\ pc' = "loop"
                  /\ raised' = raised
             ELSE IF Retryable(outcome)
               THEN /\ pc' = "except"
                    /\ UNCHANGED <<db_up, raised>>
               ELSE /\ pc' = "crashed"
                    /\ raised' = outcome
                    /\ db_up' = db_up
    /\ UNCHANGED <<plan, base, history>>
    /\ UNCHANGED storeVars

\* ---- line 39: the except block's write ----
UnavailableNoSleep ==
    /\ pc = "except"
    /\ trace' = Append(trace, WriteEvent(MsgUnavailable))
    /\ pc' = "loop"
    /\ UNCHANGED <<plan, calls, db_up, raised, base, history>>
    /\ UNCHANGED storeVars

UnavailableSilent ==
    /\ pc = "except"
    /\ pc' = "sleep"
    /\ UNCHANGED <<plan, calls, db_up, raised, trace, base, history>>
    /\ UNCHANGED storeVars

Unavailable ==
    /\ pc = "except"
    /\ trace' = Append(trace, WriteEvent(MsgUnavailable))
    /\ pc' = "sleep"
    /\ UNCHANGED <<plan, calls, db_up, raised, base, history>>
    /\ UNCHANGED storeVars

\* ---- line 40: the sleep, then back to the loop test ----
SleepGiveUp ==
    /\ pc = "sleep"
    /\ trace' = Append(trace, SleepEvent(SleepSeconds))
    /\ IF Len(SelectSeq(trace, LAMBDA e : e.op = "sleep")) >= 2
         THEN pc' = "crashed" /\ raised' = "TimeoutError"
         ELSE pc' = "loop" /\ raised' = raised
    /\ UNCHANGED <<plan, calls, db_up, base, history>>
    /\ UNCHANGED storeVars

Sleep ==
    /\ pc = "sleep"
    /\ trace' = Append(trace, SleepEvent(SleepSeconds))
    /\ pc' = "loop"
    /\ UNCHANGED <<plan, calls, db_up, raised, base, history>>
    /\ UNCHANGED storeVars

\* ---- lines 32 and 42: loop test false, the success write, return ----
AvailableUnguarded ==
    /\ pc = "loop"
    /\ trace' = Append(trace, WriteEvent(MsgAvailable))
    /\ pc' = "READY"
    /\ UNCHANGED <<plan, calls, db_up, raised, base, history>>
    /\ UNCHANGED storeVars

Available ==
    /\ pc = "loop"
    /\ db_up
    /\ trace' = Append(trace, WriteEvent(MsgAvailable))
    /\ pc' = "READY"
    /\ UNCHANGED <<plan, calls, db_up, raised, base, history>>
    /\ UNCHANGED storeVars

\* ---- the command is invoked again (a new handle call, a new stack frame) ----
NextRun ==
    /\ pc \in {"READY", "crashed"}
    /\ Len(history) < MaxRuns - 1
    /\ history' = Append(history, [base |-> base, trace |-> trace, pc |-> pc, raised |-> raised])
    /\ trace' = <<>>
    /\ raised' = ""
    /\ pc' = "idle"
    /\ UNCHANGED <<plan, calls, db_up, base>>
    /\ UNCHANGED storeVars

Next == Begin \/ Check \/ Unavailable \/ Sleep \/ Available \/ NextRun

Spec == Init /\ [][Next]_vars

\* The command is one sequential thread: a step that is enabled is taken
\* (each check and each sleep returns).  A further invocation is the caller's choice.
Run == Begin \/ Check \/ Unavailable \/ Sleep \/ Available
LiveSpec == Init /\ [][Next]_vars /\ WF_vars(Run)

(***************************************************************************)
(* Vocabulary of the properties                                            *)
(***************************************************************************)
ConnErrors == {"Psycopg2OpError", "OperationalError"}
Waiting == {"loop", "except", "sleep"}

IsCheck(e) == e.op = "check"
IsSleep(e) == e.op = "sleep"
IsWrite(e) == e.op = "write"
IsLine(e, line) == e.op = "write" /\ e.text = line
IsFailedCheck(e) == e.op = "check" /\ e.res \in ConnErrors

Count(tr, T(_)) == Len(SelectSeq(tr, T))
NumChecks == Count(trace, IsCheck)
NumSleeps == Count(trace, IsSleep)
CountLine(tr, line) == Len(SelectSeq(tr, LAMBDA e : IsLine(e, line)))

\* From call b+1 on, the environment fails n times with a connection error, then succeeds.
FailsThenOk(b, n) ==
    /\ b + n + 1 <= MaxChecks
    /\ \A j \in 1..n : plan[b + j] \in ConnErrors
    /\ plan[b + n + 1] = "ok"

\* ---- C1 ----
\* C1: when the check fails N times in a row with a connection error and then
\* succeeds, the run never makes more than N+1 checks or N sleeps, never ends
\* with an error, and when it has finished (READY) it has made exactly N+1
\* checks and exactly N sleeps; for N = 0 that is one check and no sleep.
C1_ExactCounts ==
    \A n \in 0..(MaxChecks - 1) :
        (pc # "idle" /\ FailsThenOk(base, n)) =>
            /\ NumChecks <= n + 1
            /\ NumSleeps <= n
            /\ pc # "crashed"
            /\ (pc = "READY" => NumChecks = n + 1 /\ NumSleeps = n)

C1_Witness == pc = "READY" /\ FailsThenOk(base, 3) /\ NumChecks = 4 /\ NumSleeps = 3

\* ---- C2 ----
\* C2: a check that raises an error that is not a connection error is the last
\* thing the run does: it is the last event of the trace (no later check, sleep
\* or write, so no success line), the run has ended with that error and is not READY.
C2_OtherErrorPropagates ==
    \A i \in 1..Len(trace) :
        (IsCheck(trace[i]) /\ trace[i].res \notin (ConnErrors \cup {"ok"})) =>
            /\ i = Len(trace)
            /\ pc = "crashed"
            /\ raised = trace[i].res
            /\ CountLine(trace, MsgAvailable) = 0

C2_Witness ==
    /\ pc = "crashed"
    /\ raised = "OtherError"
    /\ NumChecks = 3
    /\ NumSleeps = 2
    /\ trace[Len(trace)].res = "OtherError"

\* ---- C3 ----
\* C3: in READY the most recent check succeeded and the success line is the
\* last event of the run (nothing was checked or slept after it); and a step
\* taken in READY is never a check, a sleep or a write of the same invocation:
\* it can only be the start of another invocation.
LastCheckOk(tr) ==
    \E i \in 1..Len(tr) :
        /\ IsCheck(tr[i])
        /\ tr[i].res = "ok"
        /\ \A j \in (i + 1)..Len(tr) : ~IsCheck(tr[j]) /\ ~IsSleep(tr[j])

C3_ReadyState ==
    pc = "READY" =>
        /\ LastCheckOk(trace)
        /\ IsLine(trace[Len(trace)], MsgAvailable)

C3_ReadyOnlyAfterSuccess ==
    /\ []C3_ReadyState
    /\ [][pc = "READY" => (pc' = "idle" /\ calls' = calls /\ trace' = <<>>)]_vars

C3_Witness == pc = "READY" /\ NumChecks = 3 /\ LastCheckOk(trace)

\* ---- C4 ----
\* C4: against a check that fails with a connection error on every call the
\* run is always in WAITING (never READY, never ended with an error), and for
\* every k below the bound on calls it eventually has made more than k checks.
DownForever == \A k \in 1..MaxChecks : plan[k] \in ConnErrors

C4_UnboundedRetry ==
    /\ []((DownForever /\ pc # "idle") => (pc \in Waiting /\ raised = ""))
    /\ \A k \in 0..(MaxChecks - 1) : (DownForever => <>(NumChecks > k))

C4_Witness ==
    /\ DownForever
    /\ NumChecks = MaxChecks
    /\ NumSleeps = MaxChecks
    /\ pc = "loop"

\* ---- C5 ----
\* C5: an invocation started when the coming calls of the check are connection
\* errors followed by a success eventually reaches READY.
WillSucceed == \E n \in 0..(MaxChecks - 1) : FailsThenOk(calls, n)

C5_EventuallyReady == (pc = "idle" /\ WillSucceed) ~> (pc = "READY")

C5_Witness == pc = "READY" /\ NumChecks >= 3 /\ \E n \in 2..(MaxChecks - 1) : FailsThenOk(base, n)

\* ---- C6 ----
\* C6: the run's output is: "Waiting for database..." once, as the first event;
\* one "Database unavailable, waiting 1 second..." right after each check that
\* failed with a connection error (and nowhere else), each before the next
\* check; "Database available!" exactly when the run is READY, once, as the
\* last event and right after the successful check.  A run that ended with an
\* error has not written the success line.
C6_OutputOrder ==
    /\ (pc # "idle") =>
          /\ Len(trace) >= 1
          /\ IsLine(trace[1], MsgWaiting)
          /\ CountLine(trace, MsgWaiting) = 1
    /\ \A i \in 1..Len(trace) :
          /\ (IsFailedCheck(trace[i]) /\ i < Len(trace)) => IsLine(trace[i + 1], MsgUnavailable)
          /\ (IsFailedCheck(trace[i]) /\ i = Len(trace)) => pc = "except"
          /\ IsLine(trace[i], MsgUnavailable) =>
                /\ i > 1
                /\ IsFailedCheck(trace[i - 1])
          /\ IsCheck(trace[i]) =>
                \A j \in 1..(i - 1) :
                    IsFailedCheck(trace[j]) =>
                        \E k \in (j + 1)..(i - 1) : IsLine(trace[k], MsgUnavailable)
          /\ IsLine(trace[i], MsgAvailable) =>
                /\ i = Len(trace)
                /\ i > 1
                /\ IsCheck(trace[i - 1])
                /\ trace[i - 1].res = "ok"
          /\ IsWrite(trace[i]) => trace[i].text \in {MsgWaiting, MsgUnavailable, MsgAvailable}
    /\ (pc = "READY") <=> (CountLine(trace, MsgAvailable) = 1)
    /\ (pc # "READY") => (CountLine(trace, MsgAvailable) = 0)
    /\ (pc \in {"READY", "crashed"}) =>
          CountLine(trace, MsgUnavailable) = Count(trace, IsFailedCheck)

C6_Witness ==
    /\ pc = "READY"
    /\ CountLine(trace, MsgUnavailable) = 2
    /\ Len(trace) = 9

\* ---- C7 ----
\* C7: both connection errors are retried, in any mixture: whatever the types
\* and order of the N failures before the success, the run does not end with
\* an error and its finished sequence of calls is the one of N plain failures;
\* 2 failures of one type, 3 of the other, then success give 6 checks, 5 sleeps, READY.
Erase(e) == IF e.op = "check" THEN [e EXCEPT !.res = IF e.res = "ok" THEN "ok" ELSE "fail"] ELSE e

RECURSIVE PlainRun(_)
PlainRun(n) ==
    IF n = 0
      THEN <<WriteEvent("Waiting for database...")>>
      ELSE PlainRun(n - 1) \o
           << [op |-> "check", text |-> "", dbs |-> <<"default">>, res |-> "fail", secs |-> 0],
              WriteEvent("Database unavailable, waiting 1 second..."),
              [op |-> "sleep", text |-> "", dbs |-> <<>>, res |-> "", secs |-> 1] >>

PlainSuccess(n) ==
    PlainRun(n) \o
    << [op |-> "check", text |-> "", dbs |-> <<"default">>, res |-> "ok", secs |-> 0],
       WriteEvent("Database available!") >>

TwoThenThree ==
    /\ MaxChecks >= 6
    /\ base = 0
    /\ \A k \in 1..2 : plan[k] = "Psycopg2OpError"
    /\ \A k \in 3..5 : plan[k] = "OperationalError"
    /\ plan[6] = "ok"

C7_MixedErrorsRetried ==
    /\ \A n \in 0..(MaxChecks - 1) :
          (pc # "idle" /\ FailsThenOk(base, n)) =>
              /\ pc # "crashed"
              /\ (pc = "READY" => [i \in 1..Len(trace) |-> Erase(trace[i])] = PlainSuccess(n))
    /\ (TwoThenThree /\ pc = "READY") => (NumChecks = 6 /\ NumSleeps = 5)

C7_Witness == TwoThenThree /\ pc = "READY" /\ NumChecks = 6 /\ NumSleeps = 5

\* ---- C8 ----
\* C8: every sleep lasts 1 second; a sleep comes only right after a failed
\* check (the check, its log line, the sleep); and between two consecutive
\* checks there is exactly one sleep.
C8_FixedDelay ==
    \A i \in 1..Len(trace) :
        /\ IsSleep(trace[i]) =>
              /\ trace[i].secs = 1
              /\ i >= 3
              /\ IsFailedCheck(trace[i - 2])
              /\ IsLine(trace[i - 1], MsgUnavailable)
        /\ IsCheck(trace[i]) =>
              \A j \in 1..(i - 1) :
                  (IsCheck(trace[j]) /\ \A m \in (j + 1)..(i - 1) : ~IsCheck(trace[m])) =>
                      Cardinality({m \in (j + 1)..(i - 1) : IsSleep(trace[m])}) = 1

C8_Witness == NumSleeps = 3 /\ NumChecks = 4 /\ \A i \in 1..Len(trace) : IsSleep(trace[i]) => trace[i].secs = 1

\* ---- C9 ----
\* C9: every finished invocation that found the database ready at its first
\* check, the first as well as a later one, made the same calls: the start
\* line, one check, the success line, with no sleep, and ended READY.
ReadyRun ==
    << WriteEvent("Waiting for database..."),
       [op |-> "check", text |-> "", dbs |-> <<"default">>, res |-> "ok", secs |-> 0],
       WriteEvent("Database available!") >>

Finished ==
    IF pc \in {"READY", "crashed"}
      THEN Append(history, [base |-> base, trace |-> trace, pc |-> pc, raised |-> raised])
      ELSE history

C9_Idempotent ==
    \A r \in 1..Len(Finished) :
        LET run == Finished[r] IN
            (run.base < MaxChecks /\ plan[run.base + 1] = "ok") =>
                /\ run.trace = ReadyRun
                /\ run.pc = "READY"

C9_Witness ==
    /\ Len(history) >= 1
    /\ pc = "READY"
    /\ history[1].pc = "READY"
    /\ history[1].trace = ReadyRun
    /\ trace = history[1].trace
    /\ base = 1

\* ---- C10 ----
\* C10: every check of the run, the first and every retry, is called with
\* databases = ["default"].
C10_DefaultAlias ==
    \A i \in 1..Len(trace) : IsCheck(trace[i]) => trace[i].dbs = <<"default">>

C10_Witness == NumChecks >= 3 /\ \A i \in 1..Len(trace) : IsCheck(trace[i]) => trace[i].dbs = <<"default">>

(***************************************************************************)
(* UserManager (core/models.py).  An email is a sequence of characters; a  *)
(* call of create_user or create_superuser is one step, with its arguments *)
(* and outcome kept in ucall.                                              *)
(***************************************************************************)
MaxUserOps == 2     \* calls of create_user / create_superuser in one behaviour

\* Python's None, as an email and as a password
NoneEmail == <<"None">>
NonePassword == "None"

SampleEmails ==
    { NoneEmail,
      <<>>,
      <<"t", "@", "E">>,
      <<"T", "@", "E">>,
      <<"t", "@", "e">>,
      <<"T", "@", "e">>,
      <<"T", "@", "E", "@", "E">>,
      <<" ", "t", "@", "E">>,
      <<"t", "@", "e", " ">>,
      <<"T">>,
      <<" ">> }
SamplePasswords == {NonePassword, "testpass123"}
SampleNames == {"", "Name"}

\* `if not email`: None and "" are falsy
Falsy(email) == email = NoneEmail \/ email = <<>>

\* str.lower() on one character
Lower(c) == CASE c = "T" -> "t" [] c = "E" -> "e" [] OTHER -> c

\* str.strip()
RECURSIVE LStrip(_)
LStrip(s) == IF s # <<>> /\ Head(s) = " " THEN LStrip(Tail(s)) ELSE s
RECURSIVE RStrip(_)
RStrip(s) == IF s # <<>> /\ s[Len(s)] = " " THEN RStrip(SubSeq(s, 1, Len(s) - 1)) ELSE s
Strip(s) == RStrip(LStrip(s))

\* position of the last "@" (0 when there is none): str.rsplit("@", 1)
LastAt(s) ==
    IF \E i \in 1..Len(s) : s[i] = "@"
      THEN CHOOSE i \in 1..Len(s) : s[i] = "@" /\ \A j \in (i + 1)..Len(s) : s[j] # "@"
      ELSE 0

\* BaseUserManager.normalize_email, as called by create_user
NormalizeEmailLowerAll(email) ==
    LET e == IF Falsy(email) THEN <<>> ELSE email
        t == Strip(e)
    IN  IF LastAt(t) = 0 THEN e ELSE [i \in 1..Len(t) |-> Lower(t[i])]

NormalizeEmail(email) ==
    LET e == IF Falsy(email) THEN <<>> ELSE email
        t == Strip(e)
        k == LastAt(t)
    IN  IF k = 0
          THEN e
          ELSE SubSeq(t, 1, k - 1) \o <<"@">> \o [i \in 1..(Len(t) - k) |-> Lower(t[k + i])]

\* user.set_password(raw): None gives an unusable password
MakePassword(raw) ==
    IF raw = NonePassword
      THEN [usable |-> FALSE, digest |-> "!"]
      ELSE [usable |-> TRUE, digest |-> raw]

\* user.check_password(raw)
CheckPassword(stored, raw) ==
    /\ raw # NonePassword
    /\ stored.usable
    /\ stored = MakePassword(raw)

\* user.save() of a new row: email is unique (models.py, User.email)
SaveNew(store, row) ==
    IF \E i \in 1..Len(store) : store[i].email = row.email
      THEN [users |-> store, result |-> "IntegrityError", pk |-> 0, returned |-> NoRow]
      ELSE [users |-> Append(store, row), result |-> "ok", pk |-> Len(store) + 1, returned |-> row]

NewUser(email, password, name) ==
    [email |-> NormalizeEmail(email), password |-> MakePassword(password), name |-> name,
     is_active |-> TRUE, is_staff |-> FALSE, is_superuser |-> FALSE]

\* UserManager.create_user(email, password, **extra_fields)
CreateUserNoGuard(store, email, password, name) ==
    SaveNew(store, NewUser(email, password, name))

CreateUser(store, email, password, name) ==
    IF Falsy(email)
      THEN [users |-> store, result |-> "ValueError", pk |-> 0, returned |-> NoRow]
      ELSE SaveNew(store, NewUser(email, password, name))

\* UserManager.create_superuser(email, password)
CreateSuperuserNoSave(store, email, password) ==
    LET r == CreateUser(store, email, password, "") IN
        IF r.result # "ok"
          THEN r
          ELSE [r EXCEPT !.returned = [r.returned EXCEPT !.is_staff = TRUE, !.is_superuser = TRUE]]

CreateSuperuser(store, email, password) ==
    LET r == CreateUser(store, email, password, "") IN
        IF r.result # "ok"
          THEN r
          ELSE LET su == [r.returned EXCEPT !.is_staff = TRUE, !.is_superuser = TRUE] IN
                   [r EXCEPT !.users = [r.users EXCEPT ![r.pk] = su], !.returned = su]

\* The other component is at rest.
WaiterIdle ==
    /\ plan = [k \in 1..MaxChecks |-> Ok]
    /\ calls = 0
    /\ pc = "idle"
    /\ db_up = FALSE
    /\ raised = ""
    /\ trace = <<>>
    /\ base = 0
    /\ history = <<>>

UserInit == WaiterIdle /\ StoreEmpty

CallCreateUser ==
    /\ ucall.seq < MaxUserOps
    /\ \E email \in SampleEmails, password \in SamplePasswords, name \in SampleNames :
          LET r == CreateUser(users, email, password, name) IN
              /\ users' = r.users
              /\ ucall' = [seq |-> ucall.seq + 1, op |-> "create_user", email |-> email,
                           password |-> password, name |-> name,
                           result |-> r.result, pk |-> r.pk, returned |-> r.returned]
    /\ UNCHANGED <<vars, recipeVars>>

CallCreateSuperuser ==
    /\ ucall.seq < MaxUserOps
    /\ \E email \in SampleEmails, password \in SamplePasswords :
          LET r == CreateSuperuser(users, email, password) IN
              /\ users' = r.users
              /\ ucall' = [seq |-> ucall.seq + 1, op |-> "create_superuser", email |-> email,
                           password |-> password, name |-> "",
                           result |-> r.result, pk |-> r.pk, returned |-> r.returned]
    /\ UNCHANGED <<vars, recipeVars>>

UserNext == CallCreateUser \/ CallCreateSuperuser

UserSpec == UserInit /\ [][UserNext]_allVars

\* ---- C11 ----
\* C11: a call of create_user with a falsy email (None or "") raises
\* ValueError and leaves the table of users as it was.
C11_EmptyEmailRejected ==
    [][(ucall'.op = "create_user" /\ (ucall'.email = <<"None">> \/ ucall'.email = <<>>)) =>
          (ucall'.result = "ValueError" /\ users' = users)]_allVars

C11_Witness ==
    /\ ucall.op = "create_user"
    /\ ucall.email = <<>>
    /\ ucall.result = "ValueError"
    /\ Len(users) = 1

\* ---- C12 ----
\* The email the claim expects: the part after the last "@" lower-cased, all else as given.
DomainLowered(email) ==
    LET ats == {i \in 1..Len(email) : email[i] = "@"} IN
        IF ats = {}
          THEN email
          ELSE LET k == CHOOSE i \in ats : \A j \in ats : j <= i IN
                   [i \in 1..Len(email) |->
                       IF i > k /\ email[i] = "T" THEN "t"
                       ELSE IF i > k /\ email[i] = "E" THEN "e"
                       ELSE email[i]]

\* The same, of the email without its leading and trailing blanks when it has an "@".
RECURSIVE Trimmed(_)
Trimmed(email) ==
    IF email = <<>> THEN email
    ELSE IF email[1] = " " THEN Trimmed(SubSeq(email, 2, Len(email)))
    ELSE IF email[Len(email)] = " " THEN Trimmed(SubSeq(email, 1, Len(email) - 1))
    ELSE email

ExpectedEmail(email) ==
    IF \E i \in 1..Len(email) : email[i] = "@" THEN DomainLowered(Trimmed(email)) ELSE email

\* C12 as stated: every call of create_user with a non-empty email stores a
\* user whose email is the given one with the domain lower-cased and the local
\* part unchanged, and whose stored password verifies against the given password.
C12_Original ==
    (ucall.op = "create_user" /\ ucall.email # <<"None">> /\ ucall.email # <<>>) =>
        /\ ucall.result = "ok"
        /\ ucall.pk \in 1..Len(users)
        /\ users[ucall.pk].email = DomainLowered(ucall.email)
        /\ CheckPassword(users[ucall.pk].password, ucall.password)

\* C12 (amended): a call of create_user with a non-empty email whose
\* normalised form is not stored yet, and with a password that is not None,
\* appends one user; its email is the given one - without leading and trailing
\* blanks when it contains an "@" - with the part after the last "@"
\* lower-cased and the rest unchanged; its stored password verifies against
\* the given password.
C12_Amended ==
    [][(/\ ucall'.op = "create_user"
        /\ ucall'.seq = ucall.seq + 1
        /\ ucall'.email # <<"None">> /\ ucall'.email # <<>>
        /\ ucall'.password # "None"
        /\ \A i \in 1..Len(users) : users[i].email # ExpectedEmail(ucall'.email))
       =>
       (/\ ucall'.result = "ok"
        /\ Len(users') = Len(users) + 1
        /\ ucall'.pk = Len(users')
        /\ SubSeq(users', 1, Len(users)) = users
        /\ users'[ucall'.pk].email = ExpectedEmail(ucall'.email)
        /\ CheckPassword(users'[ucall'.pk].password, ucall'.password))]_allVars

C12_Witness ==
    /\ ucall.op = "create_user"
    /\ ucall.email = <<"T", "@", "E">>
    /\ ucall.password = "testpass123"
    /\ ucall.result = "ok"
    /\ users[ucall.pk].email = <<"T", "@", "e">>
    /\ CheckPassword(users[ucall.pk].password, "testpass123")

\* ---- C13 ----
\* C13: the user a call of create_superuser returns has is_staff and
\* is_superuser true and is the stored row; the user a call of create_user
\* returns has is_staff false; a call of create_superuser with a falsy email
\* raises ValueError and leaves the table of users as it was.
C13_Flags ==
    /\ (ucall.op = "create_superuser" /\ ucall.result = "ok") =>
          /\ ucall.returned.is_staff /\ ucall.returned.is_superuser
          /\ ucall.pk \in 1..Len(users)
          /\ users[ucall.pk] = ucall.returned
          /\ users[ucall.pk].is_staff /\ users[ucall.pk].is_superuser
    /\ (ucall.op = "create_user" /\ ucall.result = "ok") =>
          /\ ~ucall.returned.is_staff
          /\ ~users[ucall.pk].is_staff

C13_Superuser ==
    /\ []C13_Flags
    /\ [][(ucall'.op = "create_superuser" /\ ucall'.seq = ucall.seq + 1) =>
            /\ (ucall'.email = <<"None">> \/ ucall'.email = <<>>) =>
                  (ucall'.result = "ValueError" /\ users' = users)
            /\ (ucall'.email # <<"None">> /\ ucall'.email # <<>>
                  /\ \A i \in 1..Len(users) : users[i].email # ExpectedEmail(ucall'.email)) =>
                  (ucall'.result = "ok" /\ Len(users') = Len(users) + 1)]_allVars

C13_Witness ==
    /\ ucall.op = "create_superuser"
    /\ ucall.result = "ok"
    /\ Len(users) = 2
    /\ ~users[1].is_staff
    /\ users[2].is_staff /\ users[2].is_superuser

(***************************************************************************)
(* RecipeSerializer (recipe/serializers.py) on the Recipe, Tag and         *)
(* Ingredient tables (core/models.py).  Requests are served one after the  *)
(* other: a call of create or update is one step, kept in rcall.           *)
(***************************************************************************)
MaxRecipeOps == 2   \* calls of RecipeSerializer.create / update in one behaviour

\* two registered users; the authenticated user of a request is one of them
TwoUsers ==
    CreateUser(CreateUser(<<>>, <<"t", "@", "e">>, "testpass123", "").users,
               <<"T", "@", "e">>, "testpass123", "").users
AuthUsers == 1..Len(TwoUsers)

Titles == {"Soup", "Stew"}
TagLists == {<<>>, <<"Vegan">>, <<"Vegan", "Dessert">>, <<"Dessert", "Dessert">>}
IngrLists == {<<>>, <<"Salt">>, <<"Flour", "Salt">>}

\* validated_data of a request: "tags" and "ingredients" (and, on update, "title") may be absent
ValidatedData ==
    { d \in [hasTitle : BOOLEAN, title : Titles \cup {""}, hasTags : BOOLEAN, tagNames : TagLists,
             hasIngrs : BOOLEAN, ingrNames : IngrLists] :
        /\ (d.hasTitle <=> d.title # "")
        /\ (~d.hasTags => d.tagNames = <<>>)
        /\ (~d.hasIngrs => d.ingrNames = <<>>) }

\* rows of a Tag / Ingredient table matching user=u, name=n
Matching(table, u, n) == {i \in 1..Len(table) : table[i].user = u /\ table[i].name = n}

\* Tag.objects.get_or_create(user=auth_user, name=n), one call served alone
GetOrCreateAlwaysCreate(table, u, n) ==
    [table |-> Append(table, [user |-> u, name |-> n]), pk |-> Len(table) + 1,
     created |-> TRUE, result |-> "ok"]

GetOrCreate(table, u, n) ==
    LET m == Matching(table, u, n) IN
        IF m = {}
          THEN [table |-> Append(table, [user |-> u, name |-> n]), pk |-> Len(table) + 1,
                created |-> TRUE, result |-> "ok"]
          ELSE IF Cardinality(m) = 1
            THEN [table |-> table, pk |-> CHOOSE i \in m : TRUE, created |-> FALSE, result |-> "ok"]
            ELSE [table |-> table, pk |-> 0, created |-> FALSE, result |-> "MultipleObjectsReturned"]

\* the loop of _get_or_create_tags / _get_or_create_ingredients: for each
\* name, get_or_create and recipe.<relation>.add; an exception leaves the loop
RECURSIVE GetOrCreateEach(_, _, _, _, _)
GetOrCreateEach(table, links, r, u, names) ==
    IF names = <<>>
      THEN [table |-> table, links |-> links, result |-> "ok"]
      ELSE LET g == GetOrCreate(table, u, Head(names)) IN
               IF g.result # "ok"
                 THEN [table |-> table, links |-> links, result |-> g.result]
                 ELSE GetOrCreateEach(g.table, links \cup {<<r, g.pk>>}, r, u, Tail(names))

GetOrCreateTags(table, links, r, u, names) == GetOrCreateEach(table, links, r, u, names)
GetOrCreateIngredients(table, links, r, u, names) == GetOrCreateEach(table, links, r, u, names)

\* instance.tags.clear() / instance.ingredients.clear()
ClearLinksNoop(links, r) == links
ClearLinks(links, r) == {l \in links : l[1] # r}

\* the tables as one value
Store == [tags |-> tags, ingredients |-> ingredients, recipes |-> recipes,
          rtags |-> rtags, ringrs |-> ringrs]

\* RecipeSerializer.create(validated_data); the recipe's user is the authenticated user
CreateRecipe(st, u, d) ==
    LET r == Len(st.recipes) + 1
        st1 == [st EXCEPT !.recipes = Append(st.recipes, [user |-> u, title |-> d.title])]
        t == GetOrCreateTags(st1.tags, st1.rtags, r, u, d.tagNames)
        st2 == [st1 EXCEPT !.tags = t.table, !.rtags = t.links]
        i == GetOrCreateIngredients(st2.ingredients, st2.ringrs, r, u, d.ingrNames)
        st3 == [st2 EXCEPT !.ingredients = i.table, !.ringrs = i.links]
    IN  IF t.result # "ok"
          THEN [store |-> st2, recipe |-> r, result |-> t.result]
          ELSE [store |-> st3, recipe |-> r, result |-> i.result]

\* RecipeSerializer.update(instance, validated_data)
UpdateRecipe(st, u, r, d) ==
    LET t == IF d.hasTags
               THEN GetOrCreateTags(st.tags, ClearLinks(st.rtags, r), r, u, d.tagNames)
               ELSE [table |-> st.tags, links |-> st.rtags, result |-> "ok"]
        st1 == [st EXCEPT !.tags = t.table, !.rtags = t.links]
        i == IF d.hasIngrs
               THEN GetOrCreateIngredients(st1.ingredients, ClearLinks(st1.ringrs, r), r, u, d.ingrNames)
               ELSE [table |-> st1.ingredients, links |-> st1.ringrs, result |-> "ok"]
        st2 == [st1 EXCEPT !.ingredients = i.table, !.ringrs = i.links]
        st3 == IF d.hasTitle THEN [st2 EXCEPT !.recipes[r].title = d.title] ELSE st2
    IN  IF t.result # "ok"
          THEN [store |-> st1, recipe |-> r, result |-> t.result]
          ELSE IF i.result # "ok"
            THEN [store |-> st2, recipe |-> r, result |-> i.result]
            ELSE [store |-> st3, recipe |-> r, result |-> "ok"]

\* the recipes a user's requests can address (the views filter by the authenticated user)
OwnRecipes(u) == {r \in 1..Len(recipes) : recipes[r].user = u}

SetStore(st) ==
    /\ tags' = st.tags
    /\ ingredients' = st.ingredients
    /\ recipes' = st.recipes
    /\ rtags' = st.rtags
    /\ ringrs' = st.ringrs

RecipeInit ==
    /\ WaiterIdle
    /\ users = TwoUsers
    /\ ucall = NoUserCall
    /\ RecipesEmpty

RecipeCreate ==
    /\ rcall.seq < MaxRecipeOps
    /\ \E u \in AuthUsers, d \in ValidatedData :
          /\ d.hasTitle
          /\ LET c == CreateRecipe(Store, u, d) IN
                /\ SetStore(c.store)
                /\ rcall' = [seq |-> rcall.seq + 1, op |-> "create", user |-> u,
                             recipe |-> c.recipe, data |-> d, result |-> c.result]
    /\ UNCHANGED <<vars, userVars, reqs>>

RecipeUpdate ==
    /\ rcall.seq < MaxRecipeOps
    /\ \E u \in AuthUsers, d \in ValidatedData :
          \E r \in OwnRecipes(u) :
              LET c == UpdateRecipe(Store, u, r, d) IN
                  /\ SetStore(c.store)
                  /\ rcall' = [seq |-> rcall.seq + 1, op |-> "update", user |-> u,
                               recipe |-> r, data |-> d, result |-> c.result]
    /\ UNCHANGED <<vars, userVars, reqs>>

RecipeNext == RecipeCreate \/ RecipeUpdate

RecipeSpec == RecipeInit /\ [][RecipeNext]_allVars

\* ---- vocabulary of the properties of the recipe tables ----
Range(seq) == {seq[i] : i \in 1..Len(seq)}
NoDuplicates(table) ==
    \A i, j \in 1..Len(table) :
        (table[i].user = table[j].user /\ table[i].name = table[j].name) => i = j
LinkedTo(links, r) == {l[2] : l \in {x \in links : x[1] = r}}
RowsOf(table, u, n) == {k \in 1..Len(table) : table[k] = [user |-> u, name |-> n]}
IsPrefix(a, b) == Len(a) <= Len(b) /\ SubSeq(b, 1, Len(a)) = a

\* What one request of user u on recipe r, naming names, does to one table
\* (before, after) and to the recipe's links after it.
GotOrCreated(before, after, linksAfter, u, r, names) ==
    /\ IsPrefix(before, after)
    /\ Len(after) = Len(before) + Cardinality({n \in Range(names) : RowsOf(before, u, n) = {}})
    /\ \A n \in Range(names) :
          /\ RowsOf(before, u, n) # {} =>
                /\ RowsOf(after, u, n) = RowsOf(before, u, n)
                /\ \E k \in RowsOf(before, u, n) : k \in LinkedTo(linksAfter, r)
          /\ RowsOf(before, u, n) = {} =>
                /\ Cardinality(RowsOf(after, u, n)) = 1
                /\ RowsOf(after, u, n) \subseteq LinkedTo(linksAfter, r)

\* ---- C14 ----
\* C14: a create or update naming a tag (ingredient) links the recipe to the
\* authenticated user's existing row of that name and adds no row for it, or,
\* when there is none, adds exactly one row owned by that user and links it.
\* So, from an empty (duplicate-free) store and with requests served one
\* after the other, there is always at most one tag (ingredient) per
\* (user, name), and every tag (ingredient) of a recipe belongs to the recipe's user.
C14_Tables ==
    /\ NoDuplicates(tags)
    /\ NoDuplicates(ingredients)
    /\ \A l \in rtags : tags[l[2]].user = recipes[l[1]].user
    /\ \A l \in ringrs : ingredients[l[2]].user = recipes[l[1]].user

C14_GetOrCreate ==
    /\ []C14_Tables
    /\ [][(rcall'.seq = rcall.seq + 1) =>
            /\ rcall'.result = "ok"
            /\ GotOrCreated(tags, tags', rtags', rcall'.user, rcall'.recipe, rcall'.data.tagNames)
            /\ GotOrCreated(ingredients, ingredients', ringrs', rcall'.user, rcall'.recipe,
                            rcall'.data.ingrNames)]_allVars

C14_Witness ==
    /\ rcall.seq = 2
    /\ rcall.result = "ok"
    /\ Len(recipes) = 2
    /\ recipes[1].user = recipes[2].user
    /\ tags = <<[user |-> recipes[1].user, name |-> "Vegan"]>>
    /\ rtags = {<<1, 1>>, <<2, 1>>}

\* ---- C15 ----
\* C15: an update whose data has 'tags' leaves the recipe with exactly the
\* authenticated user's tags of the names given (none for the empty list); an
\* update without 'tags' leaves the recipe's tags and the Tag table as they
\* were; the same for 'ingredients', each relation independently of the
\* other; no Tag or Ingredient row is removed or changed and the links of
\* other recipes stay as they were.
Replaced(before, after, linksBefore, linksAfter, u, r, has, names) ==
    /\ IsPrefix(before, after)
    /\ {l \in linksAfter : l[1] # r} = {l \in linksBefore : l[1] # r}
    /\ has => LinkedTo(linksAfter, r) =
                 {k \in 1..Len(after) : after[k].user = u /\ after[k].name \in Range(names)}
    /\ ~has => (linksAfter = linksBefore /\ after = before)

C15_UpdateReplaces ==
    [][(rcall'.seq = rcall.seq + 1 /\ rcall'.op = "update") =>
          /\ Replaced(tags, tags', rtags, rtags', rcall'.user, rcall'.recipe,
                      rcall'.data.hasTags, rcall'.data.tagNames)
          /\ Replaced(ingredients, ingredients', ringrs, ringrs', rcall'.user, rcall'.recipe,
                      rcall'.data.hasIngrs, rcall'.data.ingrNames)
          /\ Len(recipes') = Len(recipes)]_allVars

C15_Witness ==
    /\ rcall.op = "update"
    /\ rcall.recipe = 1
    /\ rcall.data.hasTags /\ rcall.data.tagNames = <<"Vegan">>
    /\ ~rcall.data.hasIngrs
    /\ Len(tags) = 2
    /\ rtags = {<<1, 1>>}
    /\ ringrs # {}

(***************************************************************************)
(* Concurrent requests.  Each worker serves one request at a time; the     *)
(* statements a request sends to the database interleave with those of the *)
(* other worker.  QuerySet.get_or_create is two statements: the SELECT of  *)
(* get(), and, when no row matched, the INSERT of create().  Tag and       *)
(* Ingredient declare no unique constraint (core/models.py), so the INSERT *)
(* never fails.                                                            *)
(***************************************************************************)
MaxRequests == 3    \* requests started in one behaviour, over both workers

Workers == {1, 2}

\* validated_data of the concurrent requests (a create gives the title, an update leaves it)
RaceData ==
    { d \in ValidatedData :
        /\ d.title = (IF d.hasTitle THEN "Soup" ELSE "")
        /\ (d.hasTags \/ d.hasIngrs)
        /\ d.tagNames \in {<<>>, <<"Vegan">>}
        /\ d.ingrNames \in {<<>>, <<"Salt">>} }

IdleRequest == [pc |-> "idle", n |-> 0, op |-> "none", user |-> 0, recipe |-> 0,
                tagsLeft |-> <<>>, ingrsLeft |-> <<>>, clearIngrs |-> FALSE, title |-> "",
                result |-> ""]

Started == reqs[1].n + reqs[2].n

RaceInit ==
    /\ WaiterIdle
    /\ users = TwoUsers
    /\ ucall = NoUserCall
    /\ tags = <<>>
    /\ ingredients = <<>>
    /\ recipes = <<>>
    /\ rtags = {}
    /\ ringrs = {}
    /\ rcall = NoRecipeCall
    /\ reqs = [w \in Workers |-> IdleRequest]

\* create, lines 109-111: pop the lists, Recipe.objects.create
ReqCreate(w) ==
    /\ reqs[w].pc \in {"idle", "done", "failed"}
    /\ Started < MaxRequests
    /\ \E u \in AuthUsers, d \in RaceData :
          /\ d.hasTitle
          /\ recipes' = Append(recipes, [user |-> u, title |-> d.title])
          /\ reqs' = [reqs EXCEPT ![w] =
                [pc |-> "tags", n |-> reqs[w].n + 1, op |-> "create", user |-> u,
                 recipe |-> Len(recipes) + 1, tagsLeft |-> d.tagNames, ingrsLeft |-> d.ingrNames,
                 clearIngrs |-> FALSE, title |-> "", result |-> ""]]
    /\ UNCHANGED <<vars, userVars, tags, ingredients, rtags, ringrs, rcall>>

\* update, lines 128-131: pop the lists, instance.tags.clear() when 'tags' is given
ReqUpdate(w) ==
    /\ reqs[w].pc \in {"idle", "done", "failed"}
    /\ Started < MaxRequests
    /\ \E u \in AuthUsers, d \in RaceData :
          \E r \in OwnRecipes(u) :
              /\ ~d.hasTitle
              /\ rtags' = IF d.hasTags THEN ClearLinks(rtags, r) ELSE rtags
              /\ reqs' = [reqs EXCEPT ![w] =
                    [pc |-> "tags", n |-> reqs[w].n + 1, op |-> "update", user |-> u,
                     recipe |-> r, tagsLeft |-> d.tagNames, ingrsLeft |-> d.ingrNames,
                     clearIngrs |-> d.hasIngrs, title |-> d.title, result |-> ""]]
    /\ UNCHANGED <<vars, userVars, tags, ingredients, recipes, ringrs, rcall>>

\* _get_or_create_tags: the get() of get_or_create, and recipe.tags.add when a row matched
TagGet(w) ==
    /\ reqs[w].pc = "tags"
    /\ reqs[w].tagsLeft # <<>>
    /\ LET m == Matching(tags, reqs[w].user, Head(reqs[w].tagsLeft)) IN
          IF m = {}
            THEN /\ reqs' = [reqs EXCEPT ![w].pc = "tag_insert"]
                 /\ rtags' = rtags
            ELSE IF Cardinality(m) = 1
              THEN /\ rtags' = rtags \cup {<<reqs[w].recipe, CHOOSE i \in m : TRUE>>}
                   /\ reqs' = [reqs EXCEPT ![w].tagsLeft = Tail(reqs[w].tagsLeft)]
              ELSE /\ reqs' = [reqs EXCEPT ![w].pc = "failed",
                                           ![w].result = "MultipleObjectsReturned"]
                   /\ rtags' = rtags
    /\ UNCHANGED <<vars, userVars, tags, ingredients, recipes, ringrs, rcall>>

\* _get_or_create_tags: the create() of get_or_create, then recipe.tags.add
TagInsert(w) ==
    /\ reqs[w].pc = "tag_insert"
    /\ tags' = Append(tags, [user |-> reqs[w].user, name |-> Head(reqs[w].tagsLeft)])
    /\ rtags' = rtags \cup {<<reqs[w].recipe, Len(tags) + 1>>}
    /\ reqs' = [reqs EXCEPT ![w].pc = "tags", ![w].tagsLeft = Tail(reqs[w].tagsLeft)]
    /\ UNCHANGED <<vars, userVars, ingredients, recipes, ringrs, rcall>>

\* the tags loop is over; update, lines 133-134: instance.ingredients.clear()
TagsDone(w) ==
    /\ reqs[w].pc = "tags"
    /\ reqs[w].tagsLeft = <<>>
    /\ ringrs' = IF reqs[w].clearIngrs THEN ClearLinks(ringrs, reqs[w].recipe) ELSE ringrs
    /\ reqs' = [reqs EXCEPT ![w].pc = "ingrs"]
    /\ UNCHANGED <<vars, userVars, tags, ingredients, recipes, rtags, rcall>>

\* _get_or_create_ingredients: the get() of get_or_create, and the add when a row matched
IngrGet(w) ==
    /\ reqs[w].pc = "ingrs"
    /\ reqs[w].ingrsLeft # <<>>
    /\ LET m == Matching(ingredients, reqs[w].user, Head(reqs[w].ingrsLeft)) IN
          IF m = {}
            THEN /\ reqs' = [reqs EXCEPT ![w].pc = "ingr_insert"]
                 /\ ringrs' = ringrs
            ELSE IF Cardinality(m) = 1
              THEN /\ ringrs' = ringrs \cup {<<reqs[w].recipe, CHOOSE i \in m : TRUE>>}
                   /\ reqs' = [reqs EXCEPT ![w].ingrsLeft = Tail(reqs[w].ingrsLeft)]
              ELSE /\ reqs' = [reqs EXCEPT ![w].pc = "failed",
                                           ![w].result = "MultipleObjectsReturned"]
                   /\ ringrs' = ringrs
    /\ UNCHANGED <<vars, userVars, tags, ingredients, recipes, rtags, rcall>>

\* _get_or_create_ingredients: the create() of get_or_create, then the add
IngrInsert(w) ==
    /\ reqs[w].pc = "ingr_insert"
    /\ ingredients' = Append(ingredients, [user |-> reqs[w].user, name |-> Head(reqs[w].ingrsLeft)])
    /\ ringrs' = ringrs \cup {<<reqs[w].recipe, Len(ingredients) + 1>>}
    /\ reqs' = [reqs EXCEPT ![w].pc = "ingrs", ![w].ingrsLeft = Tail(reqs[w].ingrsLeft)]
    /\ UNCHANGED <<vars, userVars, tags, recipes, rtags, rcall>>

\* the ingredients loop is over; update, lines 137-140: setattr and instance.save(); return
ReqDone(w) ==
    /\ reqs[w].pc = "ingrs"
    /\ reqs[w].ingrsLeft = <<>>
    /\ recipes' = IF reqs[w].op = "update" /\ reqs[w].title # ""
                    THEN [recipes EXCEPT ![reqs[w].recipe].title = reqs[w].title]
                    ELSE recipes
    /\ reqs' = [reqs EXCEPT ![w].pc = "done", ![w].result = "ok"]
    /\ UNCHANGED <<vars, userVars, tags, ingredients, rtags, ringrs, rcall>>

RaceNext ==
    \E w \in Workers :
        \/ ReqCreate(w)
        \/ ReqUpdate(w)
        \/ TagGet(w)
        \/ TagInsert(w)
        \/ TagsDone(w)
        \/ IngrGet(w)
        \/ IngrInsert(w)
        \/ ReqDone(w)

RaceSpec == RaceInit /\ [][RaceNext]_allVars

\* ---- C16 ----
\* C16: with the get-or-create steps of concurrent requests interleaved,
\* there are never two tags (ingredients) with the same (user, name), and no
\* request fails because more than one row matched.
C16_NoDuplicatesUnderRace ==
    /\ NoDuplicates(tags)
    /\ NoDuplicates(ingredients)
    /\ \A w \in Workers : reqs[w].result # "MultipleObjectsReturned"

====
